---------------------------- MODULE Spec2Model ----------------------------
(***************************************************************************)
(* A model of the PASID validator nodes (src/src/domain): the LoadBalancer *)
(* (load_balancer_proxy.py), the Service (service_proxy.py) and the Source *)
(* (source.py), over the transport of abstract_proxy.py.                   *)
(*                                                                         *)
(* Threads are modelled at the granularity at which CPython can switch     *)
(* between them: one step per statement that reads or writes shared state. *)
(* The code takes no lock around the queue or the address list (the only   *)
(* lock, _outbound_connections_lock, guards the connection pool).          *)
(*                                                                         *)
(* A line is delivered to a node by a call of its handler                  *)
(* receiving_messages(received_message), the signature each node declares. *)
(***************************************************************************)
EXTENDS Integers, Sequences, FiniteSets, TLC

(***************************************************************************)
(* Bounds of the model.                                                    *)
(***************************************************************************)
QueueMaxSize == 1
InitialServices == 1
MaxCfg == 1
MaxLines == 3
MaxClock == 1
MaxSockets == 2
MaxStops == 2
MaxIter == 2
MaxStream == 3

(* local_port of the modelled LoadBalancer *)
LocalPort == 2000

(***************************************************************************)
(* Wire messages.  A message text is modelled by the list of parts that    *)
(* text.split(';') yields: "1;1;7;" is <<1, 1, 7, "">>.  A part is a       *)
(* record: a decimal integer (tag "num") or a literal token.               *)
(***************************************************************************)
Num(n) == [tag |-> "num", n |-> n]
Tok(s) == [tag |-> s, n |-> 0]
Empty == Tok("")

(* str.isdigit(): a non-empty string of digits only; "-3" is not one *)
IsDigit(f) == f.tag = "num" /\ f.n >= 0
(* int(str) succeeds on an optionally signed decimal *)
IsInt(f) == f.tag = "num"

Front(s) == SubSeq(s, 1, Len(s) - 1)
Last(s) == s[Len(s)]

(* text + "a;b;...;" in terms of the parts of text and the fields a, b, ... *)
AppendText(parts, fs) ==
  IF Last(parts) = Empty
    THEN Front(parts) \o fs \o <<Empty>>
    ELSE Front(parts) \o <<Tok("joined")>> \o Tail(fs) \o <<Empty>>

(* parts[-k] of Python, parts being never empty *)
FromEnd(parts, k) == parts[Len(parts) - k + 1]

(* f"1;{index};{millis};" of Source.send_message_feeding_stage *)
SourceMessage(index, millis) == <<Num(1), Num(index), Num(millis), Empty>>

NoMsg == <<>>

(* LoadBalancerProxy._register_time_when_arrives_lb; t1, t2 are the values
   of the successive get_current_millis() calls *)
_register_time_when_arrives_lb(received_message, t1, t2) ==
  LET last_timestamp_str == FromEnd(received_message, 1)
      last_timestamp == IF IsDigit(last_timestamp_str)
                          THEN last_timestamp_str.n ELSE t1
      time_now == t2
      duration == time_now - last_timestamp
  IN AppendText(received_message, <<Num(time_now), Num(duration)>>)

(***************************************************************************)
(* State of the LoadBalancer.                                              *)
(***************************************************************************)
VARIABLES
  now,            \* the last value get_current_millis() returned
  lines_left,     \* lines the environment may still deliver
  queue,          \* LoadBalancerProxy.queue
  service_addresses, \* LoadBalancerProxy.service_addresses (ports)
  lb_pc,          \* position of the dispatch loop (run / _process_queue)
  lb_msg,         \* local msg of _process_queue
  lb_it,          \* index of the list iterator of the for loop
  lb_addr,        \* local service_addr
  lb_sent,        \* local sent
  lb_snapshot,    \* service_addresses as it was when the for loop started
  lb_probed,      \* addresses pinged so far in this dispatch attempt
  lb_wire,        \* the line last written to a service connection: [to, msg]
  rd_pc,          \* position of each reader task inside receiving_messages
  rd_line,        \* the line each reader task is handling
  rd_i,           \* loop index of _change_service_targets_of_this_server
  rd_out,         \* lines written back on each inbound connection
  lb_dropped,     \* "Fila cheia. Mensagem descartada" log records
  lb_response,    \* local response of the ping branch, while no line was
                  \* handed to the node or enqueued since ("none" otherwise)
  svc_queue,      \* ServiceProxy.queue
  svc_running,    \* ServiceProxy.is_running
  svc_interrupt,  \* ServiceProxy.interrupt
  svc_target_is_source, \* ServiceProxy.target_is_source
  svc_pc,         \* position of the Service loop (run / process_and_send_to_destiny)
  svc_msg,        \* local message of process_and_send_to_destiny
  svc_out,        \* lines the Service wrote back on its inbound connection
  svc_wire,       \* lines the Service wrote to its target, not yet read there
  svc_lines_left, \* lines the environment may still deliver to the Service
  considered_messages, \* Source.considered_messages
  src_reader_alive,    \* the Source's reader task has not ended
  model_feeding_stage, \* Source.model_feeding_stage
  src_pc,         \* position of Source.send_message_feeding_stage
  src_j,          \* loop variable j
  source_current_index_message, \* Source.source_current_index_message
  dropp_count,    \* Source.dropp_count
  src_wire,       \* data written by the Source to its first hop
  src_never_free, \* no probe of the first hop has answered free so far
  fh_lines,       \* the lines a newline framing makes of what the Source
                  \* has written: each the messages that lie in it
  fh_partial,     \* the messages written after the last newline
  src_log_writer, \* Source.log_writer: "open" or "closed"
  src_slept,      \* the inter-arrival intervals (time.sleep(arrival_delay))
                  \* the emission loop has slept since its last attempt
  _outbound_connections, \* AbstractProxy._outbound_connections: the socket
                  \* pooled for each target (0: no entry)
  ap_next,        \* the next socket the operating system hands out
  ap_closes,      \* close() calls made on each socket so far
  ap_last,        \* the last call of the transport: its target, what the
                  \* network did, the socket it used and how it ended
  ap_node,        \* the class of the node: LoadBalancer, Service or Source
  ap_pc,          \* position of the constructor, "ready" once constructed
  is_running,     \* AbstractProxy.is_running
  ap_bound,       \* bind and listen of start_listening succeeded
  local_socket_closes, \* close() calls made on AbstractProxy.local_socket
  log_writer,     \* AbstractProxy.log_writer: "None", "open" or "closed"
  _log_writer_closed, \* AbstractProxy._log_writer_closed
  log_closes,     \* close() calls made on the log file
  st_pc,          \* position of each caller of stop_proxy
  stops_left,     \* stop_proxy calls still to come
  run_pc,         \* position of the thread that executes run()
  ap_iterations,  \* iterations the loop of run() has made, up to MaxIter
  ac_pc,          \* position of the thread of _accept_connections
  rt_sent,        \* the characters the peer sends on each inbound connection
  rt_stream,      \* those of them that no recv has returned yet
  rt_buffer,      \* local buffer of each reader task
  rt_pc,          \* position of each reader task (_handle_client_connection)
  rt_end,         \* why each reader task ended
  rt_calls,       \* the first arguments of the calls of receiving_messages
                  \* each reader task has made
  route_pc,       \* the node that handles the routed message next
  route_msg,      \* one message on the route Source, LoadBalancer,
                  \* LoadBalancer, Service, Source
  route_durations, \* the indexes (of text.split(";")) at which the hops
                  \* wrote a duration, in the order written
  route_T,        \* the values the Source extracted for T1, T2, ... from
                  \* the message, up to the first one it could not read
  pg_pc,          \* position of the caller of is_destiny_free for one
                  \* address: "idle", or "readline" once its ping is written
  pg_pooled,      \* the address has a pooled connection
  pg_req,         \* the number of the ping written last (0: none yet)
  pg_unanswered,  \* the pings the destination has received on the pooled
                  \* connection and not answered yet, oldest first
  pg_stream,      \* the response lines on the pooled connection that no
                  \* readline() has returned yet, each with the ping it answers
  pg_read         \* the last line readline() returned, with the ping of the
                  \* call that read it

lbVars == <<lines_left, queue, service_addresses, lb_pc, lb_msg, lb_it,
            lb_addr, lb_sent, lb_snapshot, lb_probed, lb_wire, rd_pc, rd_line,
            rd_i, rd_out, lb_dropped, lb_response>>

svcVars == <<svc_queue, svc_running, svc_interrupt, svc_target_is_source,
             svc_pc, svc_msg, svc_out, svc_wire, svc_lines_left>>

rcvVars == <<considered_messages, src_reader_alive, model_feeding_stage>>

srcVars == <<src_pc, src_j, source_current_index_message, dropp_count,
             src_wire, src_never_free, fh_lines, fh_partial,
             src_log_writer, src_slept>>

poolVars == <<_outbound_connections, ap_next, ap_closes, ap_last>>
lifeVars == <<ap_node, ap_pc, is_running, ap_bound, local_socket_closes,
              log_writer, _log_writer_closed, log_closes, st_pc, stops_left,
              run_pc, ap_iterations>>
inVars == <<ac_pc, rt_sent, rt_stream, rt_buffer, rt_pc, rt_end, rt_calls>>
netVars == <<poolVars, lifeVars, inVars>>

routeVars == <<route_pc, route_msg, route_durations, route_T>>

pingVars == <<pg_pc, pg_pooled, pg_req, pg_unanswered, pg_stream, pg_read>>

vars == <<now, lbVars, svcVars, rcvVars, srcVars, netVars, routeVars,
          pingVars>>

Readers == {"r1", "r2"}

(* the data lines the environment delivers to the LoadBalancer *)
DataMessages == {SourceMessage(i, 0) : i \in 1..2}

PingLine == [kind |-> "ping", n |-> 0, msg |-> NoMsg]
ConfigLine(n) == [kind |-> "config", n |-> n, msg |-> NoMsg]
DataLine(m) == [kind |-> "data", n |-> 0, msg |-> m]
NoLine == [kind |-> "none", n |-> 0, msg |-> NoMsg]

LBLines == {PingLine} \cup {ConfigLine(n) : n \in 0..MaxCfg}
             \cup {DataLine(m) : m \in DataMessages}

(* LoadBalancerProxy._initialize_service_addresses and the loop of
   _change_service_targets_of_this_server: port local_port + 1 + i *)
ServicePort(i) == LocalPort + 1 + i
DerivedAddresses(n) == [i \in 1..n |-> ServicePort(i - 1)]

(* LoadBalancerProxy._simulate_is_free *)
LB_simulate_is_free == Len(queue) < QueueMaxSize

(* a capacity test that is off by one *)
LB_has_capacity_offbyone == Len(queue) <= QueueMaxSize

(* the capacity test of LoadBalancerProxy.receiving_messages *)
LB_has_capacity == Len(queue) < QueueMaxSize

(* self.queue.append(message_stripped) *)
LB_enqueue(q, m) == Append(q, m)


(* the answers a ping can have for the caller: AbstractProxy.is_destiny_free
   returns True on the line "free" and False on any other line, on a
   timeout and on an error *)
ProbeOutcomes == {"free", "busy", "timeout", "error"}
is_destiny_free(outcome) == outcome = "free"

(* the outcome of AbstractProxy.send_message_to_destiny: the text is
   written, or the error is logged and swallowed *)
SendOutcomes == {"written", "failed"}

(* state after LoadBalancerProxy.__init__ with server.qtdServices = n *)
InitLBWith(n) ==
  /\ now = 0
  /\ lines_left = MaxLines
  /\ queue = <<>>
  /\ service_addresses = DerivedAddresses(n)
  /\ lb_pc = "loop"
  /\ lb_msg = NoMsg
  /\ lb_it = 0
  /\ lb_addr = 0
  /\ lb_sent = FALSE
  /\ lb_snapshot = <<>>
  /\ lb_probed = <<>>
  /\ lb_wire = <<>>
  /\ rd_pc = [r \in Readers |-> "recv"]
  /\ rd_line = [r \in Readers |-> NoLine]
  /\ rd_i = [r \in Readers |-> 0]
  /\ rd_out = [r \in Readers |-> <<>>]
  /\ lb_dropped = 0
  /\ lb_response = "none"

InitLB == InitLBWith(InitialServices)

dispatchVars == <<lb_pc, lb_msg, lb_it, lb_addr, lb_sent, lb_snapshot,
                  lb_probed, lb_wire>>
readerVars == <<rd_pc, rd_line, rd_i, rd_out, lb_dropped, lb_response,
                lines_left>>

(***************************************************************************)
(* The dispatch loop: LoadBalancerProxy.run and _process_queue.            *)
(***************************************************************************)

(* a pop that stamps the message with its arrival at every attempt *)
LB_popped_stamped(q) == _register_time_when_arrives_lb(Head(q), 0, 0)

(* the value of msg = self.queue.pop(0): the message as it was admitted *)
LB_popped(q) == Head(q)

(* has_something_to_process() and msg = self.queue.pop(0); sent = False;
   the for statement creates the iterator of self.service_addresses *)
LB_pop ==
  /\ lb_pc = "loop"
  /\ queue # <<>>
  /\ lb_msg' = LB_popped(queue)
  /\ queue' = Tail(queue)
  /\ lb_sent' = FALSE
  /\ lb_it' = 0
  /\ lb_snapshot' = service_addresses
  /\ lb_probed' = <<>>
  /\ lb_pc' = "for"
  /\ UNCHANGED <<now, service_addresses, lb_addr, lb_wire, readerVars>>

(* one step of the list iterator: the element at its index in the list as
   the list is now, or the end of the loop *)
LB_for ==
  /\ lb_pc = "for"
  /\ IF lb_it < Len(service_addresses)
       THEN /\ lb_addr' = service_addresses[lb_it + 1]
            /\ lb_it' = lb_it + 1
            /\ lb_pc' = "probe"
       ELSE /\ lb_pc' = "after"
            /\ UNCHANGED <<lb_addr, lb_it>>
  /\ UNCHANGED <<now, queue, service_addresses, lb_msg, lb_sent, lb_snapshot,
                 lb_probed, lb_wire, readerVars>>

(* if self.is_destiny_free(service_addr) *)
LB_probe ==
  /\ lb_pc = "probe"
  /\ \E outcome \in ProbeOutcomes :
       lb_pc' = IF is_destiny_free(outcome) THEN "send" ELSE "for"
  /\ lb_probed' = Append(lb_probed, lb_addr)
  /\ UNCHANGED <<now, queue, service_addresses, lb_msg, lb_it, lb_addr,
                 lb_sent, lb_snapshot, lb_wire, readerVars>>

(* msg + f"{get_current_millis()};" *)
LB_msg_to_send(msg, t3) == AppendText(msg, <<Num(t3)>>)

(* break without leaving the loop *)
LB_break_missing == "for"

(* sent = True; break: the for loop is left *)
LB_break == "after"

(* msg = self._register_time_when_arrives_lb(msg); msg_to_send = ...;
   self.send_message_to_destiny(msg_to_send + "\n", service_addr), which
   returns normally whether or not the text was written; sent = True; break *)
LB_send ==
  /\ lb_pc = "send"
  /\ \E t1 \in now..MaxClock : \E t2 \in t1..MaxClock : \E t3 \in t2..MaxClock :
     \E outcome \in SendOutcomes :
       /\ lb_msg' = _register_time_when_arrives_lb(lb_msg, t1, t2)
       /\ lb_wire' = IF outcome = "written"
                       THEN <<[to |-> lb_addr,
                               msg |-> LB_msg_to_send(lb_msg', t3)]>>
                       ELSE lb_wire
       /\ now' = t3
  /\ lb_sent' = TRUE
  /\ lb_pc' = LB_break
  /\ UNCHANGED <<queue, service_addresses, lb_it, lb_addr, lb_snapshot,
                 lb_probed, readerVars>>

(* a push-back at the tail of the queue *)
LB_push_back_tail(q, m) == q \o <<m>>

(* self.queue.insert(0, msg) *)
LB_push_back(q, m) == <<m>> \o q

(* if not sent: self.queue.insert(0, msg); back to the while of run *)
LB_after ==
  /\ lb_pc = "after"
  /\ queue' = IF lb_sent THEN queue ELSE LB_push_back(queue, lb_msg)
  /\ lb_msg' = NoMsg
  /\ lb_it' = 0
  /\ lb_addr' = 0
  /\ lb_sent' = FALSE
  /\ lb_snapshot' = <<>>
  /\ lb_probed' = <<>>
  /\ lb_pc' = "loop"
  /\ UNCHANGED <<now, service_addresses, lb_wire, readerVars>>

(***************************************************************************)
(* The reader tasks: LoadBalancerProxy.receiving_messages.                 *)
(***************************************************************************)

(* elif message_stripped == "ping": the response is computed and dropped
   (the branch ends in pass); nothing is written to the connection *)
LB_recv_ping(r) ==
  /\ rd_pc[r] = "recv"
  /\ lines_left > 0
  /\ lines_left' = lines_left - 1
  /\ LET response == IF LB_simulate_is_free THEN "free" ELSE "busy"
     IN /\ lb_response' = response
        /\ rd_out' = rd_out
  /\ UNCHANGED <<now, queue, service_addresses, dispatchVars, rd_pc, rd_line,
                 rd_i, lb_dropped>>

(* else: if len(self.queue) < self.queue_load_balancer_max_size *)
LB_recv_data(r) ==
  /\ rd_pc[r] = "recv"
  /\ lines_left > 0
  /\ lines_left' = lines_left - 1
  /\ IF LB_has_capacity
       THEN /\ \E m \in DataMessages :
                 rd_line' = [rd_line EXCEPT ![r] = DataLine(m)]
            /\ rd_pc' = [rd_pc EXCEPT ![r] = "append"]
            /\ UNCHANGED lb_dropped
       ELSE /\ lb_dropped' = lb_dropped + 1
            /\ UNCHANGED <<rd_pc, rd_line>>
  /\ lb_response' = "none"
  /\ UNCHANGED <<now, queue, service_addresses, dispatchVars, rd_i, rd_out>>

(* self.queue.append(message_stripped) *)
LB_append(r) ==
  /\ rd_pc[r] = "append"
  /\ queue' = LB_enqueue(queue, rd_line[r].msg)
  /\ rd_pc' = [rd_pc EXCEPT ![r] = "recv"]
  /\ rd_line' = [rd_line EXCEPT ![r] = NoLine]
  /\ lb_response' = "none"
  /\ UNCHANGED <<now, service_addresses, dispatchVars, rd_i, rd_out,
                 lb_dropped, lines_left>>

(* if message_stripped.startswith("config;"):
   _change_service_targets_of_this_server up to self.service_addresses.clear() *)
LB_recv_config(r) ==
  /\ rd_pc[r] = "recv"
  /\ lines_left > 0
  /\ lines_left' = lines_left - 1
  /\ \E n \in 0..MaxCfg : rd_line' = [rd_line EXCEPT ![r] = ConfigLine(n)]
  /\ service_addresses' = <<>>
  /\ rd_i' = [rd_i EXCEPT ![r] = 0]
  /\ rd_pc' = [rd_pc EXCEPT ![r] = "cfg"]
  /\ lb_response' = "none"
  /\ UNCHANGED <<now, queue, dispatchVars, rd_out, lb_dropped>>

(* the count fields of the malformed control lines "config;" and
   "config;x" *)
MalformedCounts == {Empty, Tok("x")}

(* a control line whose count is missing or not an integer:
   new_qtd_services = int(parts[1]) raises ValueError before
   self.service_addresses.clear().  Neither
   _change_service_targets_of_this_server nor receiving_messages catches
   it; in _handle_client_connection it is caught by except Exception,
   outside the while loops, and the reader task of the connection ends *)
LB_recv_config_malformed(r) ==
  /\ rd_pc[r] = "recv"
  /\ lines_left > 0
  /\ lines_left' = lines_left - 1
  /\ \E count \in MalformedCounts : ~IsInt(count)
  /\ rd_pc' = [rd_pc EXCEPT ![r] = "raised"]
  /\ lb_response' = "none"
  /\ UNCHANGED <<now, queue, service_addresses, dispatchVars, rd_line, rd_i,
                 rd_out, lb_dropped>>

(* one iteration of for i in range(new_qtd_services), or its end *)
LB_config_append(r) ==
  /\ rd_pc[r] = "cfg"
  /\ IF rd_i[r] < rd_line[r].n
       THEN /\ service_addresses' = Append(service_addresses, ServicePort(rd_i[r]))
            /\ rd_i' = [rd_i EXCEPT ![r] = @ + 1]
            /\ UNCHANGED rd_pc
            /\ UNCHANGED rd_line
       ELSE /\ rd_pc' = [rd_pc EXCEPT ![r] = "recv"]
            /\ rd_line' = [rd_line EXCEPT ![r] = NoLine]
            /\ rd_i' = [rd_i EXCEPT ![r] = 0]
            /\ UNCHANGED service_addresses
  /\ UNCHANGED <<now, queue, dispatchVars, rd_out,
                 lb_dropped, lb_response, lines_left>>

(***************************************************************************)
(* Properties of the LoadBalancer.                                         *)
(***************************************************************************)

IsPrefixOf(s, t) == Len(s) <= Len(t) /\ SubSeq(t, 1, Len(s)) = s

(* new is old with exactly k fields appended: the fields of old are kept in
   place and the text still ends with the separator *)
IsHopAppend(old, new, k) ==
  /\ Len(new) = Len(old) + k
  /\ IsPrefixOf(Front(old), new)
  /\ Last(new) = Empty

(* C1: the admission queue never holds more than the configured maximum
   number of messages, whatever the interleaving of the reader tasks and
   the dispatch loop. *)
C1_QueueBound == Len(queue) <= QueueMaxSize

(* C2: a data line handled while the queue holds the maximum number of
   messages leaves the queue as it is, adds one drop record to the log and
   returns normally; a data line handled while the queue holds fewer is
   appended at the tail of the queue. *)
C2_DropWhenFull ==
  [][\A r \in Readers :
       /\ (LB_recv_data(r) /\ Len(queue) >= QueueMaxSize)
            => /\ queue' = queue
               /\ lb_dropped' = lb_dropped + 1
               /\ rd_pc'[r] = "recv"
       /\ (LB_recv_data(r) /\ Len(queue) < QueueMaxSize)
            => /\ lb_dropped' = lb_dropped
               /\ rd_pc'[r] = "append"
               /\ rd_line'[r].kind = "data"
       /\ LB_append(r)
            => /\ queue' = queue \o <<rd_line[r].msg>>
               /\ rd_pc'[r] = "recv"
               /\ lb_dropped' = lb_dropped]_vars

(* C2 witness: a data line was dropped at a full queue that had been
   filled by an earlier admitted line *)
C2_Witness == lb_dropped >= 1 /\ Len(queue) = QueueMaxSize

(* C5: a ping line handled by the LoadBalancer writes exactly one response
   line on the connection it came in on, free iff the queue holds fewer
   than the maximum number of messages at that moment, busy otherwise. *)
C5_PingAnswered ==
  [][\A r \in Readers :
       LB_recv_ping(r)
         => rd_out'[r] = Append(rd_out[r],
                           IF Len(queue) < QueueMaxSize THEN "free" ELSE "busy")]_vars

(* C6: the message a hop forwards is the message it received with exactly
   two fields appended (arrival timestamp, duration) and nothing rewritten;
   stated here for the LoadBalancer hop. *)
C6_AppendOnlyTwoFields ==
  [][(LB_send /\ lb_wire' # lb_wire)
       => IsHopAppend(lb_msg, lb_wire'[Len(lb_wire')].msg, 2)]_vars

(* C10: a dispatch attempt probes exactly the address set that was
   configured when the attempt started: the addresses it has pinged are at
   every moment the first ones of that set, in order, and an attempt that
   ends without a send has pinged all of them. *)
C10_ProbesSnapshot ==
  /\ IsPrefixOf(lb_probed, lb_snapshot)
  /\ (lb_pc = "after" /\ ~lb_sent) => lb_probed = lb_snapshot

(* C11: when the response to a ping is free and no other line is handed to
   the node or enqueued by it between that ping and the next data line,
   that data line is admitted: it passes the capacity test and no drop is
   recorded. *)
C11_PingThenSendAdmitted ==
  [][\A r \in Readers :
       (LB_recv_data(r) /\ lb_response = "free")
         => /\ rd_pc'[r] = "append"
            /\ lb_dropped' = lb_dropped]_vars

(* C21: when the handling of a control line config;N is over, the managed
   address set is exactly the N addresses with ports local_port + 1 ..
   local_port + N in increasing order, whatever it was before, and the
   reconfiguration leaves the queue and the pooled connections as they
   are. *)
C21_ConfigReplacesSet ==
  [][\A r \in Readers :
       /\ LB_recv_config(r) => queue' = queue
       /\ (LB_config_append(r) /\ rd_pc'[r] = "recv")
            => /\ service_addresses' = DerivedAddresses(rd_line[r].n)
               /\ queue' = queue
               /\ _outbound_connections' = _outbound_connections]_vars

(* the messages the LoadBalancer has admitted and not yet forwarded, the
   oldest first: the one the dispatch loop holds, then the queue *)
Held == lb_pc \in {"for", "probe", "send"} \/ (lb_pc = "after" /\ ~lb_sent)
Pending == IF Held THEN <<lb_msg>> \o queue ELSE queue

(* the line LB_send writes when the write succeeds *)
WrittenLine == <<[to |-> lb_addr, msg |-> LB_msg_to_send(lb_msg', now')]>>

(* C26: the k-th ping of a dispatch attempt is of the k-th position of the
   managed list; the address whose ping returned true is the one the
   message is stamped for and written to; once the send is made the
   attempt makes no further ping and no further write, so a message is
   written to at most one service per attempt. *)
C26_FirstFreeOnly ==
  [][/\ lb_pc = "probe" => lb_it = Len(lb_probed) + 1
     /\ lb_pc = "send" => (lb_addr = Last(lb_probed) /\ lb_it = Len(lb_probed))
     /\ LB_send => (lb_wire' = lb_wire \/ lb_wire'[1].to = Last(lb_probed))
     /\ lb_wire' # lb_wire => (LB_send /\ ~lb_sent)
     /\ lb_sent => /\ lb_wire' = lb_wire
                   /\ lb_probed' \in {lb_probed, <<>>}
                   /\ lb_pc' = "loop" \/ lb_pc' = lb_pc]_vars

(* C35: while a managed Service listens and is idle, a message at the head
   of the queue of a running LoadBalancer is eventually forwarded to a
   service: it does not stay pending forever. *)
C35_EventuallyForwarded ==
  (queue # <<>> /\ svc_queue = <<>> /\ svc_running) ~> lb_sent

(* C38: a malformed control line leaves the managed address set, the queue
   and the running flag of the LoadBalancer as they are, and the
   connection it arrived on keeps being served: its reader task goes on
   to its next line. *)
C38_MalformedConfigIgnored ==
  [][\A r \in Readers :
       LB_recv_config_malformed(r)
         => /\ service_addresses' = service_addresses
            /\ queue' = queue
            /\ is_running' = is_running
            /\ rd_pc'[r] = "recv"]_vars

(* C39: a LoadBalancer stamps a message exactly once: the messages in the
   queue, a pushed-back one included, are as they were admitted, and a
   line written to a service is an admitted message with exactly one
   LoadBalancer hop entry, however many dispatch attempts it took. *)
C39_StampedOnce ==
  /\ \A i \in DOMAIN queue : queue[i] \in DataMessages
  /\ (lb_pc = "after" /\ ~lb_sent) => lb_msg \in DataMessages
  /\ \A i \in DOMAIN lb_wire :
       \E m \in DataMessages : \E t1, t2, t3 \in 0..MaxClock :
         lb_wire[i].msg =
           LB_msg_to_send(_register_time_when_arrives_lb(m, t1, t2), t3)

(* C39 witness: after a line was written to a service, a dispatch attempt
   has probed every managed address in vain and its push-back is due *)
C39_Witness ==
  /\ lb_pc = "after" /\ ~lb_sent
  /\ lb_probed = service_addresses
  /\ lb_wire # <<>>

(* C26 witness: the first address answered busy, the second answered free
   and the message was written to the second *)
C26_Witness ==
  /\ lb_pc = "after" /\ lb_sent
  /\ Len(lb_probed) = 2 /\ Len(service_addresses) > 2
  /\ lb_wire # <<>> /\ lb_wire[1].to = lb_probed[2]

(* C27: an admitted message is never lost: a send step either writes the
   message to the service connection or leaves it to be pushed back, and
   an attempt that ends without a send puts the message back at the head
   of the queue. *)
C27_NeverLost ==
  [][/\ LB_send => (lb_wire' = WrittenLine \/ ~lb_sent')
     /\ (LB_after /\ ~lb_sent) => queue' = <<lb_msg>> \o queue]_vars

(* C28: the admitted messages leave in the order in which they were
   enqueued: the sequence of pending messages only grows at its tail, by
   an enqueue, and only shrinks at its head, by the forwarding of its
   oldest message; a push-back does not reorder it. *)
C28_Fifo ==
  [][\/ Pending' = Pending
     \/ \E m \in DataMessages : Pending' = Append(Pending, m)
     \/ /\ LB_send
        /\ Pending' = Tail(Pending)
        /\ IsPrefixOf(Front(Head(Pending)), lb_msg')]_vars

(* C28 witness: a push-back is due while a different message, enqueued
   after the pop, waits in the queue *)
C28_Witness ==
  /\ lb_pc = "after" /\ ~lb_sent
  /\ queue # <<>> /\ queue[1] # lb_msg

(***************************************************************************)
(* The Service: service_proxy.py.                                          *)
(***************************************************************************)

(* the markers of the (marker, totalDuration) pairs *)
ResponseTime == Tok("RESPONSE TIME:")
TempoDeResposta == Tok("TEMPO DE RESPOSTA:")

(* ServiceProxy._register_time_when_arrives; t1, t2 are the values of the
   successive get_current_millis() calls *)
_register_time_when_arrives(received_message, t1, t2) ==
  LET last_timestamp_str == FromEnd(received_message, 1)
      last_timestamp == IF IsDigit(last_timestamp_str)
                          THEN last_timestamp_str.n ELSE t1
      time_now == t2
      duration == time_now - last_timestamp
  IN AppendText(received_message, <<Num(time_now), Num(duration)>>)

(* ServiceProxy._register_time_when_go_out; c is the value read into
   current_time_out and d the value of the later fallback call *)
_register_time_when_go_out(received_message, c, d) ==
  LET current_time_out == c
      arrival_timestamp_str == FromEnd(received_message, 2)
      arrival_timestamp == IF IsDigit(arrival_timestamp_str)
                             THEN arrival_timestamp_str.n ELSE d
      duration_process == current_time_out - arrival_timestamp
  IN AppendText(received_message, <<Num(current_time_out), Num(duration_process)>>)

(* ServiceProxy._register_mrt_at_the_end; e, f are the values of the
   fallback get_current_millis() calls *)
_register_mrt_at_the_end(received_message, e, f) ==
  LET first_timestamp_str == received_message[3]
      first_timestamp == IF IsDigit(first_timestamp_str)
                           THEN first_timestamp_str.n ELSE e
      last_timestamp_str == FromEnd(received_message, 2)
      last_timestamp == IF IsDigit(last_timestamp_str)
                          THEN last_timestamp_str.n ELSE f
      current_mrt == last_timestamp - first_timestamp
  IN AppendText(received_message, <<ResponseTime, Num(current_mrt)>>)

(* ServiceProxy._simulate_is_free *)
SVC_simulate_is_free == svc_queue = <<>>

(* the part of ServiceProxy.__init__ the model keeps; target_is_source is
   a parameter of the constructor *)
InitSvc ==
  /\ svc_queue = <<>>
  /\ svc_running = TRUE
  /\ svc_interrupt = FALSE
  /\ svc_target_is_source \in BOOLEAN
  /\ svc_pc = "loop"
  /\ svc_msg = NoMsg
  /\ svc_out = <<>>
  /\ svc_wire = <<>>
  /\ svc_lines_left = MaxLines

(* ServiceProxy._handle_ping_message: pass; the lines written on the
   connection are those written before *)
SVC_handle_ping_message(out, response) == out

(* ServiceProxy.receiving_messages, the ping branch: _handle_ping_message
   is pass; nothing is written to the connection *)
SVC_recv_ping ==
  /\ svc_lines_left > 0
  /\ svc_lines_left' = svc_lines_left - 1
  /\ LET response == IF SVC_simulate_is_free THEN "free" ELSE "busy"
     IN svc_out' = SVC_handle_ping_message(svc_out, response)
  /\ UNCHANGED <<now, svc_queue, svc_running, svc_interrupt,
                 svc_target_is_source, svc_pc, svc_msg, svc_wire>>

(* a data line whose first-send timestamp is not a number: "1;index;x;" *)
MalformedMessage(index) == <<Num(1), Num(index), Tok("x"), Empty>>

(* the data lines the environment delivers to the Service by time t *)
SVC_DataLines(t) ==
  {SourceMessage(index, t0) : index \in 1..2, t0 \in 0..t}
    \cup {MalformedMessage(index) : index \in 1..2}

(* ServiceProxy.receiving_messages, the else branch:
   self.queue.append(received_message.strip()) *)
SVC_recv_data ==
  /\ svc_lines_left > 0
  /\ svc_lines_left' = svc_lines_left - 1
  /\ \E m \in SVC_DataLines(now) : svc_queue' = Append(svc_queue, m)
  /\ UNCHANGED <<now, svc_running, svc_interrupt, svc_target_is_source,
                 svc_pc, svc_msg, svc_out, svc_wire>>

(* run: while self.is_running and not self.interrupt;
   process_and_send_to_destiny: message = self.queue.pop(0);
   message = self._register_time_when_arrives(message); time.sleep(delay) *)
SVC_pop ==
  /\ svc_pc = "loop"
  /\ svc_running /\ ~svc_interrupt
  /\ svc_queue # <<>>
  /\ svc_queue' = Tail(svc_queue)
  /\ \E t1 \in now..MaxClock : \E t2 \in t1..MaxClock :
       /\ svc_msg' = _register_time_when_arrives(Head(svc_queue), t1, t2)
       /\ now' = t2
  /\ svc_pc' = "sleep"
  /\ UNCHANGED <<svc_running, svc_interrupt, svc_target_is_source, svc_out,
                 svc_wire, svc_lines_left>>

(* after the sleep: message = self._register_time_when_go_out(message);
   if self.target_is_source: message = self._register_mrt_at_the_end(message);
   self.send_message_to_destiny(message + "\n", self.target_address) *)
SVC_go_out ==
  /\ svc_pc = "sleep"
  /\ \E c \in now..MaxClock : \E d \in c..MaxClock :
     \E e \in d..MaxClock : \E f \in e..MaxClock :
     \E outcome \in SendOutcomes :
       LET out == _register_time_when_go_out(svc_msg, c, d)
       IN IF svc_target_is_source
            THEN /\ svc_wire' = IF outcome = "written"
                                  THEN Append(svc_wire,
                                         _register_mrt_at_the_end(out, e, f))
                                  ELSE svc_wire
                 /\ svc_msg' = NoMsg
                 /\ svc_pc' = "loop"
                 /\ now' = f
            ELSE /\ svc_msg' = out
                 /\ svc_pc' = "wait"
                 /\ now' = d
                 /\ UNCHANGED svc_wire
  /\ UNCHANGED <<svc_queue, svc_running, svc_interrupt, svc_target_is_source,
                 svc_out, svc_lines_left>>

(* the test of while not self.is_destiny_free(self.target_address) and
   self.is_running: the loop is left when the ping is answered free or the
   flag is cleared; nothing else ends it *)
SVC_wait ==
  /\ svc_pc = "wait"
  /\ \E outcome \in ProbeOutcomes :
       svc_pc' = IF is_destiny_free(outcome) \/ ~svc_running
                   THEN "forward" ELSE "poll_sleep"
  /\ UNCHANGED <<now, svc_queue, svc_running, svc_interrupt,
                 svc_target_is_source, svc_msg, svc_out, svc_wire,
                 svc_lines_left>>

(* the body of that loop: time.sleep(0.1) *)
SVC_poll_sleep ==
  /\ svc_pc = "poll_sleep"
  /\ svc_pc' = "wait"
  /\ UNCHANGED <<now, svc_queue, svc_running, svc_interrupt,
                 svc_target_is_source, svc_msg, svc_out, svc_wire,
                 svc_lines_left>>

(* if self.is_running: self.send_message_to_destiny(message + "\n", ...) *)
SVC_forward ==
  /\ svc_pc = "forward"
  /\ \E outcome \in SendOutcomes :
       svc_wire' = IF svc_running /\ outcome = "written"
                     THEN Append(svc_wire, svc_msg)
                     ELSE svc_wire
  /\ svc_msg' = NoMsg
  /\ svc_pc' = "loop"
  /\ UNCHANGED <<now, svc_queue, svc_running, svc_interrupt,
                 svc_target_is_source, svc_out, svc_lines_left>>

(* ServiceProxy.stop_service *)
SVC_stop_service ==
  /\ svc_running
  /\ svc_interrupt' = TRUE
  /\ svc_running' = FALSE
  /\ UNCHANGED <<now, svc_queue, svc_target_is_source, svc_pc, svc_msg,
                 svc_out, svc_wire, svc_lines_left>>

(***************************************************************************)
(* The Source: source.py.                                                  *)
(***************************************************************************)

(* for j in range(1, 11) of Source.send_message_feeding_stage *)
Emissions == 10

(* Source._register_mrt_at_the_end_source *)
_register_mrt_at_the_end_source(received_message) ==
  LET last_timestamp_str == FromEnd(received_message, 2)
      first_timestamp_str == received_message[3]
  IN IF IsInt(last_timestamp_str) /\ IsInt(first_timestamp_str)
       THEN AppendText(received_message,
              <<TempoDeResposta, Num(last_timestamp_str.n - first_timestamp_str.n)>>)
       ELSE received_message

(* the state Source.__init__ leaves for the handler of returned messages,
   modelFeedingStage being stage in source.properties *)
InitRcvWith(stage) ==
  /\ considered_messages = <<>>
  /\ src_reader_alive = TRUE
  /\ model_feeding_stage = stage

InitRcv == InitRcvWith(TRUE)

(* Source.receiving_messages on the next line written by the terminal
   Service; execute_first_stage_of_model_feeding appends the message to
   considered_messages and, on index 2, computes the averages and calls
   sys.exit(0), which ends the reader task it runs in *)
SRC_receiving_messages ==
  /\ src_reader_alive
  /\ svc_target_is_source
  /\ svc_wire # <<>>
  /\ svc_wire' = Tail(svc_wire)
  /\ LET processed_message == _register_mrt_at_the_end_source(Head(svc_wire))
     IN IF model_feeding_stage
          THEN /\ considered_messages' = Append(considered_messages, processed_message)
               /\ src_reader_alive' =
                    ~(IsInt(processed_message[2]) /\ processed_message[2].n = 2)
          ELSE (* execute_second_stage_of_validation: self.log(...), whose
                  write raises ValueError on a log file that run() closed *)
               /\ UNCHANGED considered_messages
               /\ src_reader_alive' = (src_log_writer # "closed")
  /\ UNCHANGED <<now, svc_queue, svc_running, svc_interrupt,
                 svc_target_is_source, svc_pc, svc_msg, svc_out,
                 svc_lines_left, model_feeding_stage>>

(* the state Source.__init__ leaves for run(), Source.init_log_file having
   opened log.txt *)
InitSrc ==
  /\ src_pc = "run"
  /\ src_j = 1
  /\ source_current_index_message = 1
  /\ dropp_count = 0
  /\ src_wire = <<>>
  /\ src_never_free = TRUE
  /\ fh_lines = <<>>
  /\ fh_partial = <<>>
  /\ src_log_writer = "open"
  /\ src_slept = 0

(* a run() that feeds whatever the stage *)
SRC_run_branch_always(stage) == "emit"

(* if self.model_feeding_stage: self.send_message_feeding_stage()
   else: self.send_messages_validation_stage(), which logs that the stage
   is not implemented and calls sys.exit(0) *)
SRC_run_branch(stage) == IF stage THEN "emit" ELSE "exited"

(* Source.run up to the loop of send_message_feeding_stage, or to its end:
   finally: self.close_log() *)
SRC_run ==
  /\ src_pc = "run"
  /\ src_pc' = SRC_run_branch(model_feeding_stage)
  /\ src_log_writer' = IF src_pc' = "exited" /\ src_log_writer = "open"
                          THEN "closed" ELSE src_log_writer
  /\ UNCHANGED <<now, src_j, source_current_index_message, dropp_count,
                 src_wire, src_never_free, fh_lines, fh_partial, src_slept>>

(* what Source._send appends to msg before it hands the text to
   send_message_to_destiny: nothing (self.send_message_to_destiny(msg, ...)) *)
SRC_terminator == ""

(* the stream of a connection after text + terminator is written on it *)
WriteText(lines, partial, text, terminator) ==
  IF terminator = "\n"
    THEN [lines |-> Append(lines, Append(partial, text)), partial |-> <<>>]
    ELSE [lines |-> lines, partial |-> Append(partial, text)]

(* a drop counted twice *)
SRC_count_drop_twice(count) == count + 2

(* self.dropp_count += 1 *)
SRC_count_drop(count) == count + 1

(* an index that is not advanced *)
SRC_next_index_same(index) == index

(* self.source_current_index_message += 1, made after every _send, whether
   the message was written or dropped *)
SRC_next_index(index) == index + 1

(* the else branch of _send: after the drop is counted,
   time.sleep(self.arrival_delay / 1000.0) *)
SRC_drop_sleep == 1

(* one iteration of the for loop of Source.send_message_feeding_stage:
   msg = f"1;{index};{get_current_millis()};"; self._send(msg);
   self.source_current_index_message += 1; time.sleep(arrival_delay) *)
SRC_emit ==
  /\ src_pc = "emit"
  /\ src_j <= Emissions
  /\ \E t \in now..MaxClock : \E outcome \in ProbeOutcomes :
     \E sent \in SendOutcomes :
       LET msg == SourceMessage(source_current_index_message, t)
           w == WriteText(fh_lines, fh_partial, msg, SRC_terminator)
       IN /\ now' = t
          /\ src_never_free' = (src_never_free /\ ~is_destiny_free(outcome))
          /\ src_slept' = (IF is_destiny_free(outcome)
                             THEN 0 ELSE SRC_drop_sleep) + 1
          /\ IF is_destiny_free(outcome)
               THEN /\ src_wire' = IF sent = "written"
                                     THEN Append(src_wire, msg) ELSE src_wire
                    /\ fh_lines' = IF sent = "written" THEN w.lines ELSE fh_lines
                    /\ fh_partial' = IF sent = "written"
                                       THEN w.partial ELSE fh_partial
                    /\ UNCHANGED dropp_count
               ELSE /\ dropp_count' = SRC_count_drop(dropp_count)
                    /\ UNCHANGED <<src_wire, fh_lines, fh_partial>>
  /\ source_current_index_message' = SRC_next_index(source_current_index_message)
  /\ src_j' = src_j + 1
  /\ UNCHANGED <<src_pc, src_log_writer>>

(* the loop is over: while True: time.sleep(1) *)
SRC_await ==
  /\ src_pc = "emit"
  /\ src_j > Emissions
  /\ src_pc' = "await"
  /\ UNCHANGED <<now, src_j, source_current_index_message, dropp_count,
                 src_wire, src_never_free, fh_lines, fh_partial,
                 src_log_writer, src_slept>>

(***************************************************************************)
(* One message on the route Source -> LoadBalancer -> LoadBalancer ->      *)
(* Service -> Source, and the extraction of the T-values from it.          *)
(***************************************************************************)

(* if len(values) < 17: continue *)
MinValues == 17

(* the indexes execute_first_stage_of_model_feeding reads for T1 .. T5 *)
TOffsets == <<4, 7, 10, 13, 16>>

(* values[k] of Python *)
At(values, k) == values[k + 1]

(* the body of for message_str in self.considered_messages, for one
   message: the values appended for T1, T2, ... until an int() raises
   ValueError (continue); none when the message is too short *)
RECURSIVE ExtractFrom(_, _)
ExtractFrom(values, k) ==
  IF k > Len(TOffsets) \/ ~IsInt(At(values, TOffsets[k]))
    THEN <<>>
    ELSE <<At(values, TOffsets[k]).n>> \o ExtractFrom(values, k + 1)
Extracted(values) ==
  IF Len(values) < MinValues THEN <<>> ELSE ExtractFrom(values, 1)

InitRoute ==
  /\ route_pc = "source"
  /\ route_msg = NoMsg
  /\ route_durations = <<>>
  /\ route_T = <<>>

(* the Source writes msg = f"1;{index};{get_current_millis()};" *)
ROUTE_source ==
  /\ route_pc = "source"
  /\ \E index \in 1..MaxStream : \E t \in now..MaxClock :
       /\ route_msg' = SourceMessage(index, t)
       /\ now' = t
  /\ route_pc' = "lb1"
  /\ UNCHANGED <<route_durations, route_T>>

(* a LoadBalancer forwards the message: _register_time_when_arrives_lb and
   msg + f"{get_current_millis()};" of _process_queue *)
ROUTE_lb ==
  /\ route_pc \in {"lb1", "lb2"}
  /\ \E t1 \in now..MaxClock : \E t2 \in t1..MaxClock : \E t3 \in t2..MaxClock :
       /\ route_msg' = LB_msg_to_send(
                          _register_time_when_arrives_lb(route_msg, t1, t2), t3)
       /\ now' = t3
  /\ route_durations' = Append(route_durations, Len(route_msg))
  /\ route_pc' = IF route_pc = "lb1" THEN "lb2" ELSE "service"
  /\ UNCHANGED route_T

(* the terminal Service processes the message: _register_time_when_arrives,
   _register_time_when_go_out and _register_mrt_at_the_end of
   process_and_send_to_destiny *)
ROUTE_service ==
  /\ route_pc = "service"
  /\ \E t1 \in now..MaxClock : \E t2 \in t1..MaxClock : \E c \in t2..MaxClock :
       LET arrived == _register_time_when_arrives(route_msg, t1, t2)
           out == _register_time_when_go_out(arrived, c, c)
       IN /\ route_msg' = _register_mrt_at_the_end(out, c, c)
          /\ route_durations' = route_durations \o <<Len(route_msg), Len(arrived)>>
          /\ now' = c
  /\ route_pc' = "return"
  /\ UNCHANGED route_T

(* Source.receiving_messages: _register_mrt_at_the_end_source, then
   self.considered_messages.append(received_message) *)
ROUTE_return ==
  /\ route_pc = "return"
  /\ route_msg' = _register_mrt_at_the_end_source(route_msg)
  /\ route_pc' = "considered"
  /\ UNCHANGED <<now, route_durations, route_T>>

(* the message of index 2 has arrived (this one or a later one): the turn
   of this message in for message_str in self.considered_messages *)
ROUTE_extract ==
  /\ route_pc = "considered"
  /\ route_T' = Extracted(route_msg)
  /\ route_pc' = "done"
  /\ UNCHANGED <<now, route_msg, route_durations>>

(***************************************************************************)
(* The transport: abstract_proxy.py.                                       *)
(***************************************************************************)

(* the targets a node holds pooled connections to *)
Targets == {2001, 2002}
Sockets == 1..MaxSockets

(* a response line as readline() returns it: its text, and whether white
   space surrounds the text beyond the terminating newline *)
ResponseLines == [text : {"free", "busy"}, padded : BOOLEAN]
Free == [text |-> "free", padded |-> FALSE]

(* str.strip() *)
strip(line) == [line EXCEPT !.padded = FALSE]

NoCall == [call |-> "none", target |-> 0, io |-> "none", line |-> Free,
           sock |-> 0, result |-> FALSE, raised |-> FALSE]

Nodes == {"LoadBalancer", "Service", "Source"}
Stoppers == {"s1", "s2"}

(* AbstractProxy.__init__: an empty pool *)
InitPool ==
  /\ _outbound_connections = [a \in Targets |-> 0]
  /\ ap_next = 1
  /\ ap_closes = [k \in Sockets |-> 0]
  /\ ap_last = NoCall

(* the inbound connections of the node *)
Conns == {"c1", "c2"}

(* the characters of a stream: a letter, a blank and the newline *)
Alphabet == {"a", " ", "nl"}

RECURSIVE SeqsOfLen(_, _)
SeqsOfLen(S, n) ==
  IF n = 0 THEN {<<>>}
  ELSE {<<x>> \o t : x \in S, t \in SeqsOfLen(S, n - 1)}

(* what a peer may send on a connection before it goes idle or closes:
   anything on the first connection, one line on the second *)
SentStreams(c) ==
  IF c = "c1" THEN SeqsOfLen(Alphabet, MaxStream) ELSE {<<"a", "nl">>}

(* no inbound connection yet: start_listening has started no thread *)
InitIn ==
  /\ ac_pc = "test"
  /\ rt_sent = [c \in Conns |-> <<>>]
  /\ rt_stream = [c \in Conns |-> <<>>]
  /\ rt_buffer = [c \in Conns |-> <<>>]
  /\ rt_pc = [c \in Conns |-> "unborn"]
  /\ rt_end = [c \in Conns |-> "none"]
  /\ rt_calls = [c \in Conns |-> <<>>]

(* AbstractProxy.__init__ down to the call of init_log_file:
   is_running = True, no log file *)
InitNet ==
  /\ InitPool
  /\ InitIn
  /\ ap_pc = "init_log_file"
  /\ is_running = TRUE
  /\ ap_bound = FALSE
  /\ local_socket_closes = 0
  /\ log_writer = "None"
  /\ _log_writer_closed = FALSE
  /\ log_closes = 0
  /\ st_pc = [s \in Stoppers |-> "idle"]
  /\ stops_left = MaxStops
  /\ run_pc = "loop"
  /\ ap_iterations = 0

(* a node as its constructor leaves it (AP_init_log_file, AP_start_listening
   and AP_init_rest below), before any thread of it has run *)
InitConstructed ==
  /\ InitPool
  /\ InitIn
  /\ ap_node \in Nodes
  /\ ap_pc = "ready"
  /\ ap_bound \in BOOLEAN
  /\ is_running = (ap_bound \/ ap_node = "Service")
  /\ local_socket_closes = 0
  /\ log_writer \in (IF ap_node = "Source" THEN {"open", "None"} ELSE {"open"})
  /\ _log_writer_closed = FALSE
  /\ log_closes = 0
  /\ st_pc = [s \in Stoppers |-> "idle"]
  /\ stops_left = MaxStops
  /\ run_pc = "loop"
  /\ ap_iterations = 0

(* self.init_log_file(): AbstractProxy.init_log_file lets the error of
   open() escape the constructor; Source.init_log_file catches it and
   leaves log_writer = None *)
AP_init_log_file ==
  /\ ap_pc = "init_log_file"
  /\ \E opened \in BOOLEAN :
       /\ log_writer' = IF opened THEN "open" ELSE "None"
       /\ ap_pc' = IF opened \/ ap_node = "Source"
                     THEN "start_listening" ELSE "raised"
  /\ UNCHANGED <<poolVars, ap_node, is_running, ap_bound, local_socket_closes,
                 _log_writer_closed, log_closes, st_pc, stops_left, run_pc,
                 ap_iterations>>

(* AbstractProxy.start_listening: on an exception of bind or listen,
   self.is_running = False *)
AP_start_listening ==
  /\ ap_pc = "start_listening"
  /\ \E listening \in BOOLEAN :
       /\ ap_bound' = listening
       /\ is_running' = IF listening THEN is_running ELSE FALSE
  /\ ap_pc' = "init_rest"
  /\ UNCHANGED <<poolVars, ap_node, local_socket_closes, log_writer,
                 _log_writer_closed, log_closes, st_pc, stops_left, run_pc,
                 ap_iterations>>

(* what the constructor of the subclass does after super().__init__():
   ServiceProxy.__init__ assigns self.is_running = True; the constructors
   of LoadBalancerProxy and Source leave the flag alone *)
AP_init_rest ==
  /\ ap_pc = "init_rest"
  /\ is_running' = IF ap_node = "Service" THEN TRUE ELSE is_running
  /\ ap_pc' = "ready"
  /\ UNCHANGED <<poolVars, ap_node, ap_bound, local_socket_closes, log_writer,
                 _log_writer_closed, log_closes, st_pc, stops_left, run_pc,
                 ap_iterations>>

(* the loop of run(), one evaluation of its condition:
   LoadBalancerProxy.run: while self.is_running;
   ServiceProxy.run: while self.is_running and not self.interrupt (the two
   flags are only ever changed together);
   Source.send_message_feeding_stage: for j in range(1, 11), whose
   counter SRC_emit follows and which here ends after any iteration, then
   while True: time.sleep(1), which has no exit *)
AP_run ==
  /\ ap_pc = "ready"
  /\ run_pc \in {"loop", "await"}
  /\ IF ap_node = "Source"
       THEN \/ /\ run_pc = "loop"
               /\ ap_iterations < MaxIter
               /\ ap_iterations' = ap_iterations + 1
               /\ UNCHANGED run_pc
            \/ /\ run_pc = "loop"
               /\ ap_iterations > 0
               /\ run_pc' = "await"
               /\ UNCHANGED ap_iterations
       ELSE IF is_running
              THEN /\ ap_iterations < MaxIter
                   /\ ap_iterations' = ap_iterations + 1
                   /\ UNCHANGED run_pc
              ELSE /\ run_pc' = "exited"
                   /\ UNCHANGED ap_iterations
  /\ UNCHANGED <<poolVars, ap_node, ap_pc, is_running, ap_bound,
                 local_socket_closes, log_writer, _log_writer_closed,
                 log_closes, st_pc, stops_left>>

(* the clearing of the flags from outside the node: ServiceProxy.stop_service
   and the KeyboardInterrupt handler of execute_stage, proxy.is_running =
   False (and interrupt = True) *)
AP_interrupt ==
  /\ ap_pc = "ready"
  /\ is_running
  /\ is_running' = FALSE
  /\ UNCHANGED <<poolVars, ap_node, ap_pc, ap_bound, local_socket_closes,
                 log_writer, _log_writer_closed, log_closes, st_pc,
                 stops_left, run_pc, ap_iterations>>

(* stop_proxy, its first lines: if self._log_writer_closed: return;
   self.is_running = False *)
AP_stop_enter(s) ==
  /\ ap_pc = "ready"
  /\ st_pc[s] = "idle"
  /\ stops_left > 0
  /\ stops_left' = stops_left - 1
  /\ IF _log_writer_closed
       THEN UNCHANGED <<is_running, st_pc>>
       ELSE /\ is_running' = FALSE
            /\ st_pc' = [st_pc EXCEPT ![s] = "local_socket"]
  /\ UNCHANGED <<poolVars, ap_node, ap_pc, ap_bound, local_socket_closes,
                 log_writer, _log_writer_closed, log_closes, run_pc,
                 ap_iterations>>

(* if self.local_socket: self.local_socket.close(); the attribute holds the
   socket object from start_listening on, closed or not *)
AP_stop_local_socket(s) ==
  /\ st_pc[s] = "local_socket"
  /\ local_socket_closes' = local_socket_closes + 1
  /\ st_pc' = [st_pc EXCEPT ![s] = "pool"]
  /\ UNCHANGED <<poolVars, ap_node, ap_pc, is_running, ap_bound, log_writer,
                 _log_writer_closed, log_closes, stops_left, run_pc,
                 ap_iterations>>

(* with self._outbound_connections_lock: shutdown and close every pooled
   socket, then self._outbound_connections.clear() *)
AP_stop_pool(s) ==
  /\ st_pc[s] = "pool"
  /\ ap_closes' = [k \in Sockets |->
                     IF \E a \in Targets : _outbound_connections[a] = k
                       THEN ap_closes[k] + 1 ELSE ap_closes[k]]
  /\ _outbound_connections' = [a \in Targets |-> 0]
  /\ st_pc' = [st_pc EXCEPT ![s] = "log_writer"]
  /\ UNCHANGED <<ap_next, ap_last, ap_node, ap_pc, is_running, ap_bound,
                 local_socket_closes, log_writer, _log_writer_closed,
                 log_closes, stops_left, run_pc, ap_iterations>>

(* if self.log_writer is not None: try: if not self.log_writer.closed: ...
   An attribute error on a log_writer that another caller has set to None
   meanwhile is caught, and the finally clause runs all the same *)
AP_stop_log_writer(s) ==
  /\ st_pc[s] = "log_writer"
  /\ IF log_writer = "None"
       THEN /\ st_pc' = [st_pc EXCEPT ![s] = "idle"]
            /\ UNCHANGED <<log_writer, _log_writer_closed>>
       ELSE IF log_writer = "open"
              THEN /\ st_pc' = [st_pc EXCEPT ![s] = "close"]
                   /\ UNCHANGED <<log_writer, _log_writer_closed>>
              ELSE /\ log_writer' = "None"
                   /\ _log_writer_closed' = TRUE
                   /\ st_pc' = [st_pc EXCEPT ![s] = "idle"]
  /\ UNCHANGED <<poolVars, ap_node, ap_pc, is_running, ap_bound,
                 local_socket_closes, log_closes, stops_left, run_pc,
                 ap_iterations>>

(* self.log_writer.close(); finally: self.log_writer = None;
   self._log_writer_closed = True *)
AP_stop_close(s) ==
  /\ st_pc[s] = "close"
  /\ log_closes' = IF log_writer = "None" THEN log_closes ELSE log_closes + 1
  /\ log_writer' = "None"
  /\ _log_writer_closed' = TRUE
  /\ st_pc' = [st_pc EXCEPT ![s] = "idle"]
  /\ UNCHANGED <<poolVars, ap_node, ap_pc, is_running, ap_bound,
                 local_socket_closes, stops_left, run_pc, ap_iterations>>

(* an inactive pooled socket that is dropped without being closed *)
AP_close_inactive_none(closes, k) == closes

(* if sock: sock.close() of _get_or_create_outbound_connection, on the
   pooled socket that is not connected any more *)
AP_close_inactive(closes, k) == [closes EXCEPT ![k] = @ + 1]

(* AbstractProxy._get_or_create_outbound_connection: alive is the answer of
   _is_socket_connected for the pooled socket and connects tells whether
   new_sock.connect succeeds; sock = 0 stands for the exception re-raised *)
_get_or_create_outbound_connection(pool, closes, nxt, a, alive, connects) ==
  IF pool[a] # 0 /\ alive
    THEN [pool |-> pool, closes |-> closes, nxt |-> nxt, sock |-> pool[a]]
    ELSE LET closes1 == IF pool[a] # 0
                          THEN AP_close_inactive(closes, pool[a]) ELSE closes
             pool1 == [pool EXCEPT ![a] = 0]
         IN IF connects
              THEN [pool |-> [pool1 EXCEPT ![a] = nxt], closes |-> closes1,
                    nxt |-> nxt + 1, sock |-> nxt]
              ELSE [pool |-> pool1, closes |-> closes1, nxt |-> nxt,
                    sock |-> 0]

(* the answers the network can give to one call: whether the pooled socket
   of the target is still connected (there is one to ask about), and
   whether a connect succeeds (TRUE stands for no connect being made) *)
Alive(a) == IF _outbound_connections[a] # 0 THEN BOOLEAN ELSE {FALSE}
Connects(a, alive) == IF alive THEN {TRUE} ELSE BOOLEAN

(* an error handler that leaves the pooled entry in place *)
AP_evict_none(pool, closes, a) == [pool |-> pool, closes |-> closes]

(* the error handlers of is_destiny_free and send_message_to_destiny:
   if target_key in self._outbound_connections: close it and del it *)
AP_evict(pool, closes, a) ==
  IF pool[a] # 0
    THEN [pool |-> [pool EXCEPT ![a] = 0],
          closes |-> [closes EXCEPT ![pool[a]] = @ + 1]]
    ELSE [pool |-> pool, closes |-> closes]

(* what the caller of readline() gets: the stripped text of the line, or no
   line at all *)
Response(io, line) == IF io = "line" THEN strip(line).text ELSE io

(* AbstractProxy.is_destiny_free(target_address): io is what the network
   does once the connection is there: a line comes back, the read times
   out, or the write or the read fails *)
AP_is_destiny_free(a) ==
  \E alive \in Alive(a) : \E connects \in Connects(a, alive) :
  \E io \in IF connects THEN {"line", "timeout", "error"} ELSE {"error"} :
  \E line \in IF io = "line" THEN ResponseLines ELSE {Free} :
    LET g == _get_or_create_outbound_connection(
               _outbound_connections, ap_closes, ap_next, a, alive, connects)
        did == IF g.sock = 0 THEN "connect_error" ELSE io
        e == IF did \in {"connect_error", "error"}
               THEN AP_evict(g.pool, g.closes, a)
               ELSE [pool |-> g.pool, closes |-> g.closes]
    IN /\ ap_pc = "ready"
       /\ g.nxt <= MaxSockets + 1
       /\ UNCHANGED lifeVars
       /\ _outbound_connections' = e.pool
       /\ ap_closes' = e.closes
       /\ ap_next' = g.nxt
       /\ ap_last' = [call |-> "ping", target |-> a, io |-> did,
                      line |-> IF did = "line" THEN line ELSE Free,
                      sock |-> g.sock,
                      result |-> is_destiny_free(Response(did, line)),
                      raised |-> FALSE]

(***************************************************************************)
(* The pings of one address, step by step: is_destiny_free on the pooled   *)
(* connection of the address and the responses that come back on it.       *)
(***************************************************************************)

NoRead == [by |-> 0, answers |-> 0, text |-> "none"]

InitPing ==
  /\ pg_pc = "idle"
  /\ pg_pooled = FALSE
  /\ pg_req = 0
  /\ pg_unanswered = <<>>
  /\ pg_stream = <<>>
  /\ pg_read = NoRead

(* except socket.timeout: the handler logs and returns False; the entry of
   the address stays in the pool *)
PING_timeout_keeps == TRUE

(* sock = self._get_or_create_outbound_connection(target_address), which
   returns the pooled socket or connects a new one;
   data_output_stream.write(b"ping\n"); data_output_stream.flush() *)
PING_write ==
  /\ pg_pc = "idle"
  /\ pg_req < MaxLines
  /\ pg_req' = pg_req + 1
  /\ pg_pooled' = TRUE
  /\ pg_unanswered' = Append(IF pg_pooled THEN pg_unanswered ELSE <<>>,
                             pg_req + 1)
  /\ pg_stream' = IF pg_pooled THEN pg_stream ELSE <<>>
  /\ pg_pc' = "readline"
  /\ UNCHANGED pg_read

(* the destination answers the oldest ping it has not answered yet, on the
   connection the ping came in on *)
DEST_reply ==
  /\ pg_pooled
  /\ pg_unanswered # <<>>
  /\ \E text \in {"free", "busy"} :
       pg_stream' = Append(pg_stream,
                           [answers |-> Head(pg_unanswered), text |-> text])
  /\ pg_unanswered' = Tail(pg_unanswered)
  /\ UNCHANGED <<pg_pc, pg_pooled, pg_req, pg_read>>

(* response = data_input_stream.readline().decode('utf-8').strip();
   return response == "free": the next line of the connection *)
PING_readline ==
  /\ pg_pc = "readline"
  /\ pg_stream # <<>>
  /\ pg_read' = [by |-> pg_req, answers |-> Head(pg_stream).answers,
                  text |-> Head(pg_stream).text]
  /\ pg_stream' = Tail(pg_stream)
  /\ pg_pc' = "idle"
  /\ UNCHANGED <<pg_pooled, pg_req, pg_unanswered>>

(* no line within the five seconds of new_sock.settimeout(5.0):
   except socket.timeout *)
PING_timeout ==
  /\ pg_pc = "readline"
  /\ pg_stream = <<>>
  /\ pg_pooled' = PING_timeout_keeps
  /\ pg_pc' = "idle"
  /\ UNCHANGED <<pg_req, pg_unanswered, pg_stream, pg_read>>

(* the write or the read fails: except Exception closes the connection and
   removes it from the pool *)
PING_error ==
  /\ pg_pc = "readline"
  /\ pg_pooled' = FALSE
  /\ pg_pc' = "idle"
  /\ UNCHANGED <<pg_req, pg_unanswered, pg_stream, pg_read>>

(***************************************************************************)
(* The inbound side: _accept_connections and _handle_client_connection.    *)
(***************************************************************************)

(* '\n' in buffer *)
HasNewline(buffer) == \E i \in DOMAIN buffer : buffer[i] = "nl"

(* the index of the first newline of a buffer that holds one *)
FirstNewline(buffer) ==
  CHOOSE i \in DOMAIN buffer :
    buffer[i] = "nl" /\ \A j \in 1..(i - 1) : buffer[j] # "nl"

(* message, buffer = buffer.split('\n', 1) *)
SplitMessage(buffer) == SubSeq(buffer, 1, FirstNewline(buffer) - 1)
SplitRest(buffer) == SubSeq(buffer, FirstNewline(buffer) + 1, Len(buffer))

(* str.strip() on a line: the blanks at both ends go *)
RECURSIVE lstrip(_)
lstrip(m) == IF m # <<>> /\ Head(m) = " " THEN lstrip(Tail(m)) ELSE m
RECURSIVE rstrip(_)
rstrip(m) == IF m # <<>> /\ Last(m) = " " THEN rstrip(Front(m)) ELSE m
StripLine(m) == rstrip(lstrip(m))

(* the positional parameters receiving_messages declares after self in
   LoadBalancerProxy, ServiceProxy and Source (received_message), and the
   arguments _handle_client_connection passes (message.strip(), conn) *)
HandlerParameters == 1
CallArguments == 2

(* the call self.receiving_messages(message.strip(), conn) raises TypeError
   before the body of the handler runs *)
CallRaises == CallArguments # HandlerParameters

(* while self.is_running: of _accept_connections *)
AC_test ==
  /\ ap_pc = "ready" /\ ap_bound
  /\ ac_pc = "test"
  /\ ac_pc' = IF is_running THEN "accept" ELSE "exited"
  /\ UNCHANGED <<rt_sent, rt_stream, rt_buffer, rt_pc, rt_end, rt_calls>>

(* conn, addr = self.local_socket.accept(), which blocks until a peer
   connects; conn.settimeout(1.0); the reader task of the connection is
   started *)
AC_accept(c) ==
  /\ ac_pc = "accept"
  /\ rt_pc[c] = "unborn"
  /\ rt_pc' = [rt_pc EXCEPT ![c] = "recv"]
  /\ ac_pc' = "test"
  /\ UNCHANGED <<rt_sent, rt_stream, rt_buffer, rt_end, rt_calls>>

(* the peer of a fresh connection writes what it has to send *)
PEER_send(c) ==
  /\ rt_pc[c] = "recv"
  /\ rt_sent[c] = <<>>
  /\ \E sent \in SentStreams(c) :
       /\ rt_sent' = [rt_sent EXCEPT ![c] = sent]
       /\ rt_stream' = [rt_stream EXCEPT ![c] = sent]
  /\ UNCHANGED <<ac_pc, rt_buffer, rt_pc, rt_end, rt_calls>>

(* accept() raises OSError (or another exception): break *)
AC_accept_error ==
  /\ ac_pc = "accept"
  /\ ac_pc' = "exited"
  /\ UNCHANGED <<rt_sent, rt_stream, rt_buffer, rt_pc, rt_end, rt_calls>>

(* how a reader task ends: every path out of the while loop of
   _handle_client_connection is the end of the function *)
RT_end(c, why) ==
  /\ rt_pc' = [rt_pc EXCEPT ![c] = "ended"]
  /\ rt_end' = [rt_end EXCEPT ![c] = why]

(* while self.is_running: data = conn.recv(4096).decode('utf-8') with any
   number of the pending characters; buffer += data *)
RT_recv(c) ==
  /\ rt_pc[c] = "recv"
  /\ IF ~is_running
       THEN /\ RT_end(c, "stopped")
            /\ UNCHANGED <<rt_stream, rt_buffer>>
       ELSE /\ \E k \in 1..Len(rt_stream[c]) :
                 /\ rt_buffer' = [rt_buffer EXCEPT
                                    ![c] = @ \o SubSeq(rt_stream[c], 1, k)]
                 /\ rt_stream' = [rt_stream EXCEPT
                                    ![c] = SubSeq(@, k + 1, Len(@))]
            /\ rt_pc' = [rt_pc EXCEPT ![c] = "lines"]
            /\ UNCHANGED rt_end
  /\ UNCHANGED <<ac_pc, rt_sent, rt_calls>>

(* conn.recv raises socket.timeout after one second without data: the
   except clause outside the while loop passes *)
RT_timeout(c) ==
  /\ rt_pc[c] = "recv"
  /\ is_running
  /\ RT_end(c, "timeout")
  /\ UNCHANGED <<ac_pc, rt_sent, rt_stream, rt_buffer, rt_calls>>

(* the peer has closed the connection (recv returns no data: break) or the
   connection is reset (ConnectionResetError) *)
RT_peer_gone(c) ==
  /\ rt_pc[c] = "recv"
  /\ is_running
  /\ \E why \in {"closed", "reset"} :
       /\ why = "closed" => rt_stream[c] = <<>>
       /\ RT_end(c, why)
  /\ UNCHANGED <<ac_pc, rt_sent, rt_stream, rt_buffer, rt_calls>>

(* while '\n' in buffer: message, buffer = buffer.split('\n', 1);
   self.receiving_messages(message.strip(), conn).  The TypeError of the
   call is caught by except Exception, outside the while loops *)
RT_lines(c) ==
  /\ rt_pc[c] = "lines"
  /\ IF HasNewline(rt_buffer[c])
       THEN /\ rt_buffer' = [rt_buffer EXCEPT ![c] = SplitRest(@)]
            /\ rt_calls' = [rt_calls EXCEPT
                              ![c] = Append(@, StripLine(SplitMessage(rt_buffer[c])))]
            /\ IF CallRaises
                 THEN RT_end(c, "error")
                 ELSE UNCHANGED <<rt_pc, rt_end>>
       ELSE /\ rt_pc' = [rt_pc EXCEPT ![c] = "recv"]
            /\ UNCHANGED <<rt_buffer, rt_calls, rt_end>>
  /\ UNCHANGED <<ac_pc, rt_sent, rt_stream>>

(* AbstractProxy.send_message_to_destiny(message, target_address): io is
   what sendall does once the connection is there.  Every exception is
   caught by the except clause, which logs it and evicts the entry; the
   call returns None in every case *)
AP_send_message_to_destiny(a) ==
  \E alive \in Alive(a) : \E connects \in Connects(a, alive) :
  \E io \in IF connects THEN {"ok", "error"} ELSE {"error"} :
    LET g == _get_or_create_outbound_connection(
               _outbound_connections, ap_closes, ap_next, a, alive, connects)
        did == IF g.sock = 0 THEN "connect_error" ELSE io
        e == IF did \in {"connect_error", "error"}
               THEN AP_evict(g.pool, g.closes, a)
               ELSE [pool |-> g.pool, closes |-> g.closes]
    IN /\ ap_pc = "ready"
       /\ g.nxt <= MaxSockets + 1
       /\ UNCHANGED lifeVars
       /\ _outbound_connections' = e.pool
       /\ ap_closes' = e.closes
       /\ ap_next' = g.nxt
       /\ ap_last' = [call |-> "send", target |-> a, io |-> did,
                      line |-> Free, sock |-> g.sock, result |-> FALSE,
                      raised |-> FALSE]

(***************************************************************************)
(* Specifications: one per node, the other nodes as constructed.           *)
(***************************************************************************)
InitAll ==
  InitLB /\ InitSvc /\ InitRcv /\ InitSrc /\ InitNet /\ InitRoute /\ InitPing

notLB == <<svcVars, rcvVars, srcVars, netVars, routeVars, pingVars>>
notSvc == <<lbVars, srcVars, netVars, routeVars, pingVars>>
notSrc == <<lbVars, svcVars, rcvVars, netVars, routeVars, pingVars>>
notNet == <<now, lbVars, svcVars, rcvVars, srcVars, routeVars, pingVars>>
notRoute == <<lbVars, svcVars, rcvVars, srcVars, netVars, pingVars>>
notPing == <<now, lbVars, svcVars, rcvVars, srcVars, netVars, routeVars>>

(* the LoadBalancer: its dispatch loop and its reader tasks *)
Init ==
  /\ InitAll
  /\ svc_target_is_source = TRUE
  /\ ap_node = "LoadBalancer"
Next ==
  \/ LB_pop /\ UNCHANGED notLB
  \/ LB_for /\ UNCHANGED notLB
  \/ LB_probe /\ UNCHANGED notLB
  \/ LB_send /\ UNCHANGED notLB
  \/ LB_after /\ UNCHANGED notLB
  \/ \E r \in Readers : LB_recv_ping(r) /\ UNCHANGED notLB
  \/ \E r \in Readers : LB_recv_data(r) /\ UNCHANGED notLB
  \/ \E r \in Readers : LB_append(r) /\ UNCHANGED notLB
  \/ \E r \in Readers : LB_recv_config(r) /\ UNCHANGED notLB
  \/ \E r \in Readers : LB_config_append(r) /\ UNCHANGED notLB
Spec == Init /\ [][Next]_vars

(* the reader tasks of a LoadBalancer whose peers send data lines and
   control lines, well-formed or not *)
NextConfig ==
  \/ \E r \in Readers : LB_recv_data(r) /\ UNCHANGED notLB
  \/ \E r \in Readers : LB_append(r) /\ UNCHANGED notLB
  \/ \E r \in Readers : LB_recv_config(r) /\ UNCHANGED notLB
  \/ \E r \in Readers : LB_config_append(r) /\ UNCHANGED notLB
  \/ \E r \in Readers : LB_recv_config_malformed(r) /\ UNCHANGED notLB
SpecConfig == Init /\ [][NextConfig]_vars

(* a LoadBalancer that manages several services and is not reconfigured:
   its dispatch loop and the data and ping lines of its reader tasks *)
DispatchServices == InitialServices + 2
InitDispatch ==
  /\ InitLBWith(DispatchServices)
  /\ InitSvc /\ InitRcv /\ InitSrc /\ InitNet /\ InitRoute /\ InitPing
  /\ svc_target_is_source = TRUE
  /\ ap_node = "LoadBalancer"
NextDispatch ==
  \/ LB_pop /\ UNCHANGED notLB
  \/ LB_for /\ UNCHANGED notLB
  \/ LB_probe /\ UNCHANGED notLB
  \/ LB_send /\ UNCHANGED notLB
  \/ LB_after /\ UNCHANGED notLB
  \/ \E r \in Readers : LB_recv_ping(r) /\ UNCHANGED notLB
  \/ \E r \in Readers : LB_recv_data(r) /\ UNCHANGED notLB
  \/ \E r \in Readers : LB_append(r) /\ UNCHANGED notLB
SpecDispatch == InitDispatch /\ [][NextDispatch]_vars

(* the managed address at which the Service of this model listens *)
ListeningService == ServicePort(1)

(* a probe of one of the other managed addresses, whose answer is any *)
LB_probe_other ==
  /\ lb_addr # ListeningService
  /\ LB_probe

(* if self.is_destiny_free(service_addr), the address being that of a
   Service that listens: the ping line is handled by
   ServiceProxy.receiving_messages, and readline() returns the line the
   handler wrote on the connection, or times out when it wrote none *)
LB_probe_service ==
  /\ lb_pc = "probe"
  /\ lb_addr = ListeningService
  /\ LET response == IF SVC_simulate_is_free THEN "free" ELSE "busy"
         written == SVC_handle_ping_message(<<>>, response)
         outcome == IF written = <<>> THEN "timeout" ELSE Head(written)
     IN lb_pc' = IF is_destiny_free(outcome) THEN "send" ELSE "for"
  /\ lb_probed' = Append(lb_probed, lb_addr)
  /\ UNCHANGED <<now, queue, service_addresses, lb_msg, lb_it, lb_addr,
                 lb_sent, lb_snapshot, lb_wire, readerVars>>

(* a LoadBalancer one of whose managed addresses is that of a Service that
   listens and is idle, the thread of run() being scheduled again and
   again: each step of the dispatch loop that is due is eventually made *)
NextForward ==
  \/ LB_pop /\ UNCHANGED notLB
  \/ LB_for /\ UNCHANGED notLB
  \/ LB_probe_service /\ UNCHANGED notLB
  \/ LB_probe_other /\ UNCHANGED notLB
  \/ LB_send /\ UNCHANGED notLB
  \/ LB_after /\ UNCHANGED notLB
  \/ \E r \in Readers : LB_recv_ping(r) /\ UNCHANGED notLB
  \/ \E r \in Readers : LB_recv_data(r) /\ UNCHANGED notLB
  \/ \E r \in Readers : LB_append(r) /\ UNCHANGED notLB
SpecForward ==
  /\ InitDispatch /\ [][NextForward]_vars
  /\ WF_vars(LB_pop /\ UNCHANGED notLB)
  /\ WF_vars(LB_for /\ UNCHANGED notLB)
  /\ WF_vars(LB_probe_service /\ UNCHANGED notLB)
  /\ WF_vars(LB_probe_other /\ UNCHANGED notLB)
  /\ WF_vars(LB_send /\ UNCHANGED notLB)
  /\ WF_vars(LB_after /\ UNCHANGED notLB)

(* the Service, its lines coming from a Source, and the handler of the
   Source for what a terminal Service sends back *)
NextSvc ==
  \/ SVC_recv_ping /\ UNCHANGED <<rcvVars, notSvc>>
  \/ SVC_recv_data /\ UNCHANGED <<rcvVars, notSvc>>
  \/ SVC_pop /\ UNCHANGED <<rcvVars, notSvc>>
  \/ SVC_go_out /\ UNCHANGED <<rcvVars, notSvc>>
  \/ SVC_wait /\ UNCHANGED <<rcvVars, notSvc>>
  \/ SVC_poll_sleep /\ UNCHANGED <<rcvVars, notSvc>>
  \/ SVC_forward /\ UNCHANGED <<rcvVars, notSvc>>
  \/ SVC_stop_service /\ UNCHANGED <<rcvVars, notSvc>>
  \/ SRC_receiving_messages /\ UNCHANGED notSvc
InitService == InitAll /\ ap_node = "Service"
SpecSvc == InitService /\ [][NextSvc]_vars

(* the same, the thread of run() being scheduled again and again: a step of
   its polling loop or a forward that is due is eventually made *)
SpecSvcFair ==
  /\ SpecSvc
  /\ WF_vars(SVC_wait /\ UNCHANGED <<rcvVars, notSvc>>)
  /\ WF_vars(SVC_poll_sleep /\ UNCHANGED <<rcvVars, notSvc>>)
  /\ WF_vars(SVC_forward /\ UNCHANGED <<rcvVars, notSvc>>)

(* the emission loop of the Source *)
NextSrc ==
  \/ SRC_run /\ UNCHANGED notSrc
  \/ SRC_emit /\ UNCHANGED notSrc
  \/ SRC_await /\ UNCHANGED notSrc
InitSource ==
  /\ InitAll
  /\ svc_target_is_source = TRUE
  /\ ap_node = "Source"
SpecSrc == InitSource /\ [][NextSrc]_vars

(* a line a terminal Service writes to the Source: the message of the given
   index stamped by the Service at time 0 *)
ReturnedMessage(index) ==
  _register_mrt_at_the_end(
    _register_time_when_go_out(
      _register_time_when_arrives(SourceMessage(index, 0), 0, 0), 0, 0), 0, 0)

(* the indexes of the messages that can come back to the Source: in the
   feeding stage those of the messages it has written, the first two of
   them at most; in the validation stage, in which it writes none, 1 *)
ReturnedIndexes ==
  IF model_feeding_stage
    THEN {i \in 1..2 : \E k \in DOMAIN src_wire : src_wire[k][2] = Num(i)}
    ELSE {1}

(* a peer of the Source writes one line to it *)
PEER_return ==
  /\ svc_lines_left = MaxLines
  /\ svc_wire = <<>>
  /\ svc_lines_left' = svc_lines_left - 1
  /\ \E index \in ReturnedIndexes : svc_wire' = <<ReturnedMessage(index)>>
  /\ UNCHANGED <<now, svc_queue, svc_running, svc_interrupt,
                 svc_target_is_source, svc_pc, svc_msg, svc_out>>

(* the Source in either stage: run() and the handler of the lines that
   reach it *)
InitStages ==
  /\ InitLB /\ InitSvc /\ InitSrc /\ InitNet /\ InitRoute /\ InitPing
  /\ \E stage \in BOOLEAN : InitRcvWith(stage)
  /\ svc_target_is_source = TRUE
  /\ ap_node = "Source"
NextStages ==
  \/ SRC_run /\ UNCHANGED notSrc
  \/ SRC_emit /\ UNCHANGED notSrc
  \/ SRC_await /\ UNCHANGED notSrc
  \/ PEER_return /\ UNCHANGED <<rcvVars, notSvc>>
  \/ SRC_receiving_messages /\ UNCHANGED notSvc
SpecStages == InitStages /\ [][NextStages]_vars

(* the life of one node: its constructor, the loop of its run(), its accept
   loop and the clearing of its flag *)
NextNode ==
  \/ AP_init_log_file /\ UNCHANGED <<notNet, inVars>>
  \/ AP_start_listening /\ UNCHANGED <<notNet, inVars>>
  \/ AP_init_rest /\ UNCHANGED <<notNet, inVars>>
  \/ AP_run /\ UNCHANGED <<notNet, inVars>>
  \/ AP_interrupt /\ UNCHANGED <<notNet, inVars>>
  \/ AC_test /\ UNCHANGED <<notNet, poolVars, lifeVars>>
  \/ \E c \in Conns : AC_accept(c) /\ UNCHANGED <<notNet, poolVars, lifeVars>>
  \/ AC_accept_error /\ UNCHANGED <<notNet, poolVars, lifeVars>>
InitNode ==
  /\ InitAll
  /\ svc_target_is_source = TRUE
  /\ ap_node \in Nodes
SpecNode == InitNode /\ [][NextNode]_vars

(* the same, the threads of run() and of the accept loop being scheduled
   again and again: a loop test that is due is eventually made *)
SpecNodeFair ==
  /\ SpecNode
  /\ WF_vars(AP_run /\ UNCHANGED <<notNet, inVars>>)
  /\ WF_vars(AC_test /\ UNCHANGED <<notNet, poolVars, lifeVars>>)

(* the inbound side of one constructed node that listens: its accept loop
   and the reader tasks of its connections *)
NextReader ==
  \/ AP_interrupt /\ UNCHANGED <<notNet, inVars>>
  \/ AC_test /\ UNCHANGED <<notNet, poolVars, lifeVars>>
  \/ \E c \in Conns : AC_accept(c) /\ UNCHANGED <<notNet, poolVars, lifeVars>>
  \/ AC_accept_error /\ UNCHANGED <<notNet, poolVars, lifeVars>>
  \/ \E c \in Conns : PEER_send(c) /\ UNCHANGED <<notNet, poolVars, lifeVars>>
  \/ \E c \in Conns : RT_recv(c) /\ UNCHANGED <<notNet, poolVars, lifeVars>>
  \/ \E c \in Conns : RT_timeout(c) /\ UNCHANGED <<notNet, poolVars, lifeVars>>
  \/ \E c \in Conns : RT_peer_gone(c) /\ UNCHANGED <<notNet, poolVars, lifeVars>>
  \/ \E c \in Conns : RT_lines(c) /\ UNCHANGED <<notNet, poolVars, lifeVars>>

(* one message on its way through two LoadBalancers and a terminal
   Service and back to the Source *)
NextRoute ==
  \/ ROUTE_source /\ UNCHANGED notRoute
  \/ ROUTE_lb /\ UNCHANGED notRoute
  \/ ROUTE_service /\ UNCHANGED notRoute
  \/ ROUTE_return /\ UNCHANGED notRoute
  \/ ROUTE_extract /\ UNCHANGED notRoute
InitRouted ==
  /\ InitAll
  /\ svc_target_is_source = TRUE
  /\ ap_node = "Source"
SpecRoute == InitRouted /\ [][NextRoute]_vars

(* the transport of one constructed node: its probes, its sends and the
   callers of stop_proxy *)
InitTransport ==
  /\ InitLB /\ InitSvc /\ InitRcv /\ InitSrc /\ InitConstructed /\ InitRoute
  /\ InitPing
  /\ svc_target_is_source = TRUE
  /\ ap_bound = TRUE
NextNet ==
  \/ \E a \in Targets : AP_is_destiny_free(a) /\ UNCHANGED <<notNet, inVars>>
  \/ \E a \in Targets : AP_send_message_to_destiny(a) /\ UNCHANGED <<notNet, inVars>>
  \/ \E s \in Stoppers : AP_stop_enter(s) /\ UNCHANGED <<notNet, inVars>>
  \/ \E s \in Stoppers : AP_stop_local_socket(s) /\ UNCHANGED <<notNet, inVars>>
  \/ \E s \in Stoppers : AP_stop_pool(s) /\ UNCHANGED <<notNet, inVars>>
  \/ \E s \in Stoppers : AP_stop_log_writer(s) /\ UNCHANGED <<notNet, inVars>>
  \/ \E s \in Stoppers : AP_stop_close(s) /\ UNCHANGED <<notNet, inVars>>
SpecNet == InitTransport /\ [][NextNet]_vars
SpecReader == InitTransport /\ [][NextReader]_vars

(* the pings a node makes of one address, whose endpoint answers every
   ping it receives, sooner or later *)
NextPing ==
  \/ PING_write /\ UNCHANGED notPing
  \/ DEST_reply /\ UNCHANGED notPing
  \/ PING_readline /\ UNCHANGED notPing
  \/ PING_timeout /\ UNCHANGED notPing
  \/ PING_error /\ UNCHANGED notPing
SpecPing == InitTransport /\ [][NextPing]_vars

(***************************************************************************)
(* Properties of the Service and of the Source.                            *)
(***************************************************************************)

IsMarker(f) == f \in {ResponseTime, TempoDeResposta}
MarkerCount(m) == Cardinality({i \in DOMAIN m : IsMarker(m[i])})

(* C3: the Service holds at most one pending message: a data line that
   arrives while the slot is occupied is dropped, not queued. *)
C3_SingleSlot == Len(svc_queue) <= 1

(* C4: a ping line handled by the Service is answered on the connection it
   came in on, with free iff the slot is empty at that moment and with
   busy otherwise. *)
C4_ServicePingAnswered ==
  [][SVC_recv_ping
       => svc_out' = Append(svc_out,
                       IF svc_queue = <<>> THEN "free" ELSE "busy")]_vars

(* C7: every completed message the Source hands to its statistics step
   holds the response-time marker exactly once, and the Source writes no
   received message onward (all it writes are its own three-field
   emissions). *)
C7_OneMarkerNoForward ==
  /\ \A i \in DOMAIN considered_messages :
       MarkerCount(considered_messages[i]) = 1
  /\ \A i \in DOMAIN src_wire : Len(src_wire[i]) = 4

(* C8: the message 1;1;T0; sent through one terminal Service is, at the
   Source, its three fields, then exactly two hop fields, then one marker
   pair whose value is the hop timestamp minus T0. *)
C8_RoundTrip ==
  \A i \in DOMAIN considered_messages :
    LET m == considered_messages[i]
    IN m[2] = Num(1)
         => /\ Len(m) = 8
            /\ m[1] = Num(1) /\ IsInt(m[3])
            /\ IsInt(m[4]) /\ IsInt(m[5])
            /\ IsMarker(m[6])
            /\ m[7] = Num(m[4].n - m[3].n)
            /\ m[8] = Empty

(* C22: a Source in validation mode shows no partial behaviour: its run()
   only ends (the stage is logged as not implemented and sys.exit(0) is
   called), it makes no emission attempt, so it sends no ping and no data
   message, it changes no counter, and a message it receives is not added
   to the collected samples. *)
C22_ValidationUnimplemented ==
  ~model_feeding_stage
    => /\ src_pc \in {"run", "exited"}
       /\ src_j = 1 /\ src_never_free
       /\ src_wire = <<>> /\ fh_lines = <<>> /\ fh_partial = <<>>
       /\ dropp_count = 0 /\ source_current_index_message = 1
       /\ considered_messages = <<>>

(* C22 witness: run() has ended in validation mode and the Source has
   handled a message after that *)
C22_Witness ==
  /\ ~model_feeding_stage /\ src_pc = "exited"
  /\ svc_lines_left < MaxLines /\ svc_wire = <<>>
  /\ src_log_writer = "closed" /\ ~src_reader_alive

(* C23: a message whose timestamp field is not parsable still gets the
   fields of each node it passes: the Service appends its arrival pair,
   and the Source completes the message it collects with its marker
   pair, computed with the current time in place of the missing value. *)
C23_MalformedRecovered ==
  [][/\ SVC_pop => Len(svc_msg') = Len(Head(svc_queue)) + 2
     /\ SVC_go_out
          => IF svc_target_is_source
               THEN \/ svc_wire' = svc_wire
                    \/ /\ Len(Last(svc_wire')) = Len(svc_msg) + 4
                       /\ FromEnd(Last(svc_wire'), 3) = ResponseTime
               ELSE Len(svc_msg') = Len(svc_msg) + 2
     /\ (SRC_receiving_messages /\ model_feeding_stage)
          => LET m == Last(considered_messages')
             IN /\ Len(m) = Len(Head(svc_wire)) + 2
                /\ FromEnd(m, 3) = TempoDeResposta]_vars

(* C29: the pop releases the slot: right after it the queue is empty, and a
   ping handled while the popped message is processed or awaits
   forwarding, no data line having been admitted since, is answered
   free. *)
C29_SlotReleasedOnPop ==
  [][/\ SVC_pop => svc_queue' = <<>>
     /\ (SVC_recv_ping /\ svc_pc # "loop" /\ svc_queue = <<>>)
          => svc_out' = Append(svc_out, "free")]_vars

(* C30: a running Service does not wait forever on one message: once it
   polls its downstream address it eventually returns to its dispatch
   loop, by a send or by dropping the message, whatever the downstream
   answers. *)
C30_BoundedPolling ==
  (svc_pc = "wait" /\ svc_running) ~> (svc_pc = "loop" \/ ~svc_running)

(* C24: for a message that travelled Source, LoadBalancer, LoadBalancer,
   Service, Source, each index the Source reads for T1 .. T5 holds a
   duration a hop wrote (never a timestamp or a marker), so that the
   Source extracts all five values from the message. *)
C24_OffsetsAreDurations ==
  route_pc = "done"
    => /\ \A k \in DOMAIN TOffsets :
            /\ IsInt(At(route_msg, TOffsets[k]))
            /\ \E i \in DOMAIN route_durations :
                 route_durations[i] = TOffsets[k]
       /\ Len(route_T) = Len(TOffsets)

(* C9: while no probe of the first hop has answered free, the dropped
   count equals the number of emission attempts made and the Source has
   written no data message to the first hop. *)
C9_DropCounting ==
  src_never_free => (dropp_count = src_j - 1 /\ src_wire = <<>>)

(* C19: every data message written on a connection ends with one newline:
   the receiver frames each message the Source has written as a line of
   its own, and no message is left in an unterminated tail. *)
C19_NewlineTerminated ==
  /\ fh_partial = <<>>
  /\ fh_lines = [i \in DOMAIN src_wire |-> <<src_wire[i]>>]

(* the message m as each hop of the route LoadBalancer, Service, Source
   leaves it, the clock readings being t1 <= t2 *)
HopOutputs(m, t1, t2) ==
  LET a == LB_msg_to_send(_register_time_when_arrives_lb(m, t1, t2), t2)
      b == _register_time_when_arrives(a, t1, t2)
      c == _register_time_when_go_out(b, t2, t2)
      d == _register_mrt_at_the_end(c, t2, t2)
      e == _register_mrt_at_the_end_source(d)
  IN {a, b, c, d, e}

(* C25: the Source never emits two messages with the same sequenceIndex:
   every emission attempt, written or dropped, consumes one index, so the
   next index is always the number of attempts made plus one; the indexes
   of the messages written are strictly increasing; and no hop changes
   the index field of a message the Source wrote (checked on each message
   when it is the last one written). *)
C25_IndexUnique ==
  /\ source_current_index_message = src_j
  /\ \A i \in DOMAIN src_wire :
       /\ src_wire[i][2].n < source_current_index_message
       /\ i > 1 => src_wire[i - 1][2].n < src_wire[i][2].n
  /\ src_wire # <<>>
       => \A t1 \in 0..MaxClock : \A t2 \in t1..MaxClock :
            \A out \in HopOutputs(Last(src_wire), t1, t2) :
              out[2] = Last(src_wire)[2]

(* C33: the time between two consecutive emission attempts is one
   inter-arrival interval, whether the earlier attempt was sent or dropped:
   when an attempt is due, the loop has slept one interval since the last
   one. *)
C33_OneIntervalPerAttempt ==
  (src_pc = "emit" /\ src_j > 1) => src_slept = 1

(* C34: once the message that completes the samples has been handled (the
   handler has computed the averages and called sys.exit(0)), the process
   is over: the emission loop makes no further attempt and does not go on
   to its await loop. *)
C34_CompletionTerminates ==
  [][(model_feeding_stage /\ ~src_reader_alive)
       => (src_j' = src_j /\ src_pc' = src_pc)]_vars

(* C25 witness: an emission was dropped and later emissions were written *)
C25_Witness ==
  /\ dropp_count >= 1 /\ Len(src_wire) >= 2
  /\ src_wire[1][2].n > 1

(* C9 witness: all the emission attempts of the run were made and each met
   a destination that did not answer free *)
C9_Witness ==
  src_never_free /\ src_j = Emissions + 1 /\ dropp_count = Emissions

(***************************************************************************)
(* Properties of the transport.                                            *)
(***************************************************************************)

(* the last call failed with an error after the target's pooled socket
   (if any) was in use *)
PooledSocketGone ==
  /\ _outbound_connections[ap_last.target] = 0
  /\ ap_last.sock # 0 => ap_closes[ap_last.sock] >= 1

(* C12 as stated: a probe returns true iff the line read is exactly free;
   a timeout, an error or another response gives false, and after an error
   the target has no pooled connection and the one it used is closed. *)
C12_PingExactlyFree ==
  ap_last.call = "ping"
    => /\ ap_last.result <=> (ap_last.io = "line" /\ ap_last.line = Free)
       /\ ap_last.io \in {"error", "connect_error"} => PooledSocketGone

(* C12, amended: a probe returns true iff the line read, with surrounding
   white space removed, is free; a timeout, an error or another response
   gives false, and after an error the target has no pooled connection and
   the one it used is closed, so that the next probe connects anew. *)
C12_PingStrippedFree ==
  ap_last.call = "ping"
    => /\ ap_last.result <=> (ap_last.io = "line" /\ strip(ap_last.line) = Free)
       /\ ap_last.io \in {"error", "connect_error"} => PooledSocketGone

(* C12 witness: a probe failed on a connection taken from the pool, which
   an earlier probe had put there *)
C12_Witness ==
  /\ ap_last.call = "ping" /\ ap_last.io = "error"
  /\ ap_last.sock # 0 /\ ap_next > ap_last.sock + 1

(* a call of is_destiny_free or send_message_to_destiny is made in this
   step *)
TransportCall ==
  \E a \in Targets : AP_is_destiny_free(a) \/ AP_send_message_to_destiny(a)

(* C32: for any sequence of send and ping calls the pool holds at most one
   connection per address and none that was closed; a call for an address
   without an entry connects a new socket, a call for an address with an
   entry uses the pooled socket or closes it and connects a new one; after
   a failed write, read or connect the address has no entry and the socket
   used is closed, otherwise the entry is the socket used; the entries of
   the other addresses are left alone. *)
C32_PoolLifecycle ==
  [][TransportCall
       => LET a == ap_last'.target
              old == _outbound_connections[a]
              used == ap_last'.sock
              failed == ap_last'.io \in {"error", "connect_error"}
          IN /\ \A b \in Targets \ {a} :
                  _outbound_connections'[b] = _outbound_connections[b]
             /\ \A b \in Targets :
                  _outbound_connections'[b] # 0
                    => /\ ap_closes'[_outbound_connections'[b]] = 0
                       /\ \A c \in Targets \ {b} :
                            _outbound_connections'[c] # _outbound_connections'[b]
             /\ (old # 0 /\ used # old) => ap_closes'[old] = ap_closes[old] + 1
             /\ (used # 0 /\ used # old) => (used = ap_next /\ ap_closes[used] = 0)
             /\ _outbound_connections'[a] = IF failed THEN 0 ELSE used
             /\ (failed /\ used # 0) => ap_closes'[used] = 1]_vars

(* C32 witness: the first connection was closed and evicted, and a later
   call went through on a new connection, which is pooled *)
C32_Witness ==
  /\ ap_last.io \in {"ok", "line"}
  /\ ap_last.sock > 1
  /\ _outbound_connections[ap_last.target] = ap_last.sock
  /\ ap_closes[ap_last.sock] = 0
  /\ \E k \in Sockets : k < ap_last.sock /\ ap_closes[k] = 1

(* C13: when the connect or the write of a send fails, the pooled entry of
   the target is closed and evicted and the failure reaches the caller as
   an exception; the transport makes one attempt only. *)
C13_SendFailurePropagated ==
  (ap_last.call = "send" /\ ap_last.io \in {"error", "connect_error"})
    => /\ PooledSocketGone
       /\ ap_last.raised

(* C14: stop is idempotent: across any number of sequential or concurrent
   calls the listening socket, each pooled socket and the log file are
   closed at most once, also on a node whose log file could not be opened. *)
C14_ClosedAtMostOnce ==
  /\ local_socket_closes <= 1
  /\ log_closes <= 1
  /\ \A k \in Sockets : ap_closes[k] <= 1

(* C16: a node whose bind or listen failed is not running once it is
   constructed, and the loop of its run() makes no iteration. *)
C16_ListenFailureStops ==
  (ap_pc = "ready" /\ ~ap_bound) => (~is_running /\ ap_iterations = 0)

(* the loop of run() and the accept loop (which exists on a node that
   listens) are over *)
LoopsExited ==
  /\ run_pc = "exited"
  /\ ap_bound => ac_pc = "exited"

(* C15: once the running flag of a constructed node is cleared, its loops
   eventually exit; stated for the loop of run() and the accept loop. *)
C15_Cancellation ==
  (ap_pc = "ready" /\ ~is_running) ~> LoopsExited

(* C36: after a call of stop_proxy has run to its end, the pool is empty
   and stays empty, whatever send or ping was in progress or starts
   afterwards. *)
C36_PoolEmptyAfterStop ==
  _log_writer_closed => \A a \in Targets : _outbound_connections[a] = 0

(* C37: each ping returns the answer to its own request: the line a call
   of is_destiny_free reads was written in reply to the ping of that call,
   also after an earlier ping of the address ended in a timeout. *)
C37_OwnAnswer ==
  pg_read.by = pg_read.answers

(* C31: an accept error that occurs while the node is running does not end
   the accept loop, which goes on to its next test and accepts later
   connections; only an accept error after a stop request ends the loop. *)
C31_AcceptErrorRetried ==
  [][AC_accept_error => (IF is_running THEN ac_pc' = "test"
                                        ELSE ac_pc' = "exited")]_vars

(***************************************************************************)
(* Properties of the reader tasks.                                         *)
(***************************************************************************)

(* the characters a reader task has been given by recv so far *)
Consumed(c) == SubSeq(rt_sent[c], 1, Len(rt_sent[c]) - Len(rt_stream[c]))

(* the complete lines of a text, in order, and the partial line after the
   last newline *)
RECURSIVE Lines(_)
Lines(text) ==
  IF HasNewline(text)
    THEN <<SplitMessage(text)>> \o Lines(SplitRest(text))
    ELSE <<>>
RECURSIVE Partial(_)
Partial(text) == IF HasNewline(text) THEN Partial(SplitRest(text)) ELSE text

StrippedLines(text) == [i \in DOMAIN Lines(text) |-> StripLine(Lines(text)[i])]

(* C17: a read timeout does not end the reader task, which goes on reading;
   a connection closed or reset by the peer ends the reader task of that
   connection only and leaves the other reader tasks and the running flag
   as they are. *)
C17_TimeoutKeepsReader ==
  [][\A c \in Conns :
       /\ RT_timeout(c) => rt_pc'[c] = "recv"
       /\ RT_peer_gone(c)
            => /\ rt_pc'[c] = "ended"
               /\ \A d \in Conns \ {c} : rt_pc'[d] = rt_pc[d]
               /\ is_running' = is_running]_vars

(* C18: handling a line never raises into the reader task: no reader task
   ends because its call of the handler raised. *)
C18_HandlerNeverRaises ==
  \A c \in Conns : rt_end[c] # "error"

(* C20: whenever a reader task is not in the middle of its buffer, the
   handler has been called once for each complete line received so far on
   the connection, in the order sent, and the buffer holds the partial
   line that follows the last newline. *)
C20_FramingInOrder ==
  \A c \in Conns :
    rt_pc[c] # "lines"
      => /\ rt_calls[c] = StrippedLines(Consumed(c))
         /\ rt_buffer[c] = Partial(Consumed(c))

=============================================================================
